---- MODULE Spec2Model ----
(***************************************************************************)
(* spylt: backup-on-save (SpyllingFigure.savefig, src/spylt/core.py),       *)
(* recovery (src/spylt/recover.py) and the decorator and context manager   *)
(* that install SpyllingFigure as pyplot's figure class                    *)
(* (src/spylt/wrappers.py).                                                *)
(*                                                                         *)
(* A file name is the sequence of its dot-separated components             *)
(* ("plot.v2.png" is <<"plot","v2","png">>), a path is a sequence of file   *)
(* names, and an absolute path starts with the name Root.  The file system *)
(* is keyed by absolute paths; a relative path is resolved against Cwd.    *)
(***************************************************************************)
EXTENDS Integers, Sequences, FiniteSets, TLC

VARIABLES
    fs,        \* the file system: [files: path -> content, dirs: set of paths]
    fig,       \* the live SpyllingFigure (its private fields), or NoFig
    buf,       \* what has been written into the caller's in-memory buffer
    rcParams,  \* matplotlib's global rendering configuration
    sysPath,   \* the Reader process's module search path (sys.path)
    last,      \* the last operation: its inputs, its outputs, what it created
    saved,     \* the figure and destination of the last persist to a path
    nSaves,    \* number of persists so far
    nReads,    \* number of Reader operations so far
    pltFigure, \* the attribute `figure` of matplotlib.pyplot: the figure factory
    scopes,    \* the SpyllingContext scopes entered and not yet left, innermost last
    nEnters    \* number of scope entries attempted so far

vars == <<fs, fig, buf, rcParams, sysPath, last, saved, nSaves, nReads,
          pltFigure, scopes, nEnters>>

\* ------------------------------------------------------------------ bounds
MaxSaves == 1     \* persists in a run
MaxRepeats == 2   \* persists in a run of repeated persists
MaxReads == 1     \* Reader operations in a run
MaxOrderReads == 2   \* Reader operations in a run that reads repeatedly
MaxEnters == 2    \* SpyllingContext scopes entered in a run

\* ------------------------------------------------------------ pathlib.Path
Root == <<"/">>
Cwd == <<Root, <<"cwd">>>>
None == "None"

IsAbsolute(p) == Len(p) > 0 /\ p[1] = Root
Absolute(p) == IF IsAbsolute(p) THEN p ELSE Cwd \o p
PathName(p) == p[Len(p)]
Parent(p) == SubSeq(p, 1, Len(p) - 1)
\* Path.suffix without its dot, "" when the name has no dot
Suffix(name) == IF Len(name) > 1 THEN name[Len(name)] ELSE ""
\* Path.stem: the name without its last suffix
Stem(name) == IF Len(name) > 1 THEN SubSeq(name, 1, Len(name) - 1) ELSE name
\* Path.with_suffix: replaces the LAST suffix of the name, or appends one
WithSuffix(p, suffix) ==
    Parent(p) \o << IF suffix = "" THEN Stem(PathName(p))
                    ELSE Stem(PathName(p)) \o <<suffix>> >>
IsPrefix(p, q) == Len(p) <= Len(q) /\ SubSeq(q, 1, Len(p)) = p
RelativeTo(p, base) == SubSeq(p, Len(base) + 1, Len(p))
Prefixes(p) == { SubSeq(p, 1, n) : n \in 1..Len(p) }

\* ------------------------------------------------------------- file system
EmptyMap == [x \in {} |-> None]
Put(f, k, v) == [x \in DOMAIN f \cup {k} |-> IF x = k THEN v ELSE f[x]]

IsFile(fsys, p) == Absolute(p) \in DOMAIN fsys.files
IsDir(fsys, p) == Absolute(p) \in fsys.dirs
Exists(fsys, p) == IsFile(fsys, p) \/ IsDir(fsys, p)
\* Path.mkdir(parents=True, exist_ok=True)
Mkdir(fsys, p) == [fsys EXCEPT !.dirs = @ \cup Prefixes(Absolute(p))]
WriteFile(fsys, p, content) == [fsys EXCEPT !.files = Put(@, Absolute(p), content)]
\* Path.glob("*.<ext>"): the files directly inside directory p
Glob(fsys, p, ext) ==
    IF ~IsDir(fsys, p) THEN {}
    ELSE { p \o RelativeTo(q, Absolute(p)) :
             q \in { f \in DOMAIN fsys.files :
                       Parent(f) = Absolute(p) /\ Suffix(PathName(f)) = ext } }
\* Path.glob("**/*.<ext>"): the files anywhere under directory p
RGlob(fsys, p, ext) ==
    IF ~IsDir(fsys, p) THEN {}
    ELSE { p \o RelativeTo(q, Absolute(p)) :
             q \in { f \in DOMAIN fsys.files :
                       /\ Len(f) > Len(Absolute(p))
                       /\ IsPrefix(Absolute(p), f)
                       /\ Suffix(PathName(f)) = ext } }

\* ------------------------------------------------- values and their types
\* A data value is its runtime type and its repr.  Mro is the type's method
\* resolution order: isinstance(v, types) holds when one of `types` is in it.
Int1 == [ty |-> "int", repr |-> "1"]
BoolT == [ty |-> "bool", repr |-> "True"]
StrS == [ty |-> "str", repr |-> "s"]
Values == {Int1, BoolT, StrS}
Mro(ty) == IF ty = "bool" THEN {"bool", "int", "object"} ELSE {ty, "object"}
IsInstance(v, types) == Mro(v.ty) \cap types # {}

\* a value pickle cannot serialise: a lambda
Lambda == [ty |-> "function", repr |-> "<lambda>"]
Picklable(v) == v # Lambda
\* pickle.dump / pickle.loads: an opaque byte serialisation of the value
PickleDump(v) == [t |-> "pickle", ty |-> v.ty, bytes |-> v.repr]
PickleLoads(c) == [ty |-> c.ty, repr |-> c.bytes]

\* --------------------------------------------- plot functions and modules
\* A plot function: its __name__, its __module__ (dotted name as a
\* sequence), whether that module has a __file__ in the writing process, the
\* file holding the module's source, and the function's own source text.
NoFun == [name |-> "", module |-> <<>>, hasFile |-> FALSE, file |-> "",
          src |-> "", kind |-> "none"]
\* tm.figure: a function of spylt/_testing.py
FunInModule ==
    [name |-> "figure", module |-> <<"spylt", "_testing">>, hasFile |-> TRUE,
     file |-> "_testing.py", src |-> "def figure", kind |-> "function"]
\* tm.fake_module.fake_figure: function and module share the name
FunSharingName ==
    [name |-> "fake_figure", module |-> <<"fake_figure">>, hasFile |-> TRUE,
     file |-> "_testing.py", src |-> "def fake_figure", kind |-> "function"]
\* tm.Plot.figure: a method of a class of spylt/_testing.py
Method ==
    [name |-> "figure", module |-> <<"spylt", "_testing">>, hasFile |-> TRUE,
     file |-> "_testing.py", src |-> "def Plot.figure", kind |-> "method"]
\* spylling_figure of tests/plot_fun_in_main.py, run as a script
FunInMain ==
    [name |-> "spylling_figure", module |-> <<"__main__">>, hasFile |-> TRUE,
     file |-> "plot_fun_in_main.py", src |-> "def spylling_figure",
     kind |-> "function"]
\* the same code run by `ipython -c`: __main__ has no __file__
FunInInteractive ==
    [name |-> "spylling_figure", module |-> <<"__main__">>, hasFile |-> FALSE,
     file |-> "", src |-> "def spylling_figure", kind |-> "function"]
\* figure of plots/figure.py: the module's last segment is the function's name
FunInPackage ==
    [name |-> "figure", module |-> <<"plots", "figure">>, hasFile |-> TRUE,
     file |-> "plots/figure.py", src |-> "def plots.figure", kind |-> "function"]
\* plot of myplots.py, a module the Writer's process imports from its own
\* directory and the Reader's environment does not have
FunInLocalModule ==
    [name |-> "plot", module |-> <<"myplots">>, hasFile |-> TRUE,
     file |-> "myplots.py", src |-> "def plot", kind |-> "function"]
PlotFuns ==
    {FunInModule, FunSharingName, Method, FunInMain, FunInInteractive, FunInPackage}

\* The top-level functions each source file defines: name -> source text.
FileDefs(file) ==
    IF file = "_testing.py"
    THEN [n \in {"figure", "fake_figure", "spylling_figure"} |-> "def " \o n]
    ELSE IF file = "plot_fun_in_main.py"
    THEN [n \in {"spylling_figure"} |-> "def " \o n]
    ELSE IF file = "plots/figure.py"
    THEN [n \in {"figure"} |-> "def plots." \o n]
    ELSE IF file = "myplots.py"
    THEN [n \in {"plot"} |-> "def " \o n]
    ELSE EmptyMap

\* ".".join(parts)
RECURSIVE DottedStr(_)
DottedStr(parts) ==
    IF Len(parts) = 0 THEN ""
    ELSE IF Len(parts) = 1 THEN parts[1]
    ELSE parts[1] \o "." \o DottedStr(Tail(parts))

\* File contents written by the Writer.
ModuleSource(file) == [t |-> "source", file |-> file]
ShimText(module_name, fun_name) ==
    [t |-> "text",
     text |-> "from " \o DottedStr(module_name) \o " import " \o fun_name,
     module |-> module_name, fun |-> fun_name]
FunSource(f) == [t |-> "funsource", name |-> f.name, src |-> f.src]
Artifact == [t |-> "figure"]
\* str(rcParams) filtered as savefig does: the lines starting with "backend"
\* are dropped and "savefig.bbox: None" becomes "savefig.bbox: standard".
RcText(rc) ==
    [t |-> "rc",
     lines |-> [k \in DOMAIN rc \ {"backend"} |->
                  IF k = "savefig.bbox" /\ rc[k] = "None" THEN "standard" ELSE rc[k]]]

\* ------------------------------------------------- SpyllingFigure.__init__
NoFig == [none |-> TRUE]
NewFigure(plot_fun, data, as_dir, zipped, excluded_args, excluded_types, save_env) ==
    [plot_fun |-> plot_fun,
     plot_module |-> IF plot_fun.kind # "none" /\ plot_fun.hasFile
                     THEN plot_fun.module ELSE <<>>,
     data |-> data,
     as_dir |-> as_dir,
     zipped |-> zipped,
     excluded_args |-> excluded_args,
     excluded_types |-> excluded_types,
     save_env |-> save_env,
     buffers |-> EmptyMap]

\* --------------------------------------------------- SpyllingFigure.savefig
\* The destination passed to savefig: a str/Path, a file object opened on
\* `path` (it has a name attribute), or an in-memory buffer (it has none).
PathDest(p) == [kind |-> "path", path |-> p]
FileLikeDest(p) == [kind |-> "filelike", path |-> p]
BufferDest == [kind |-> "buffer", path |-> <<>>]

\* (a variant without the branch for file objects that have a name)
ResolveFnameNoName(dest) ==
    IF dest.kind = "path" THEN dest.path ELSE <<>>

\* fname after lines 93-101: <<>> when savefig returns without a backup
ResolveFname(dest) ==
    IF dest.kind = "path" THEN dest.path
    ELSE IF dest.kind = "filelike" THEN dest.path
    ELSE <<>>

\* Figure.savefig of the base class: it renders into the destination, and
\* raises when the destination's directory does not exist.  st.trace lists
\* what savefig has written so far, in order.
BaseSavefig(st, dest) ==
    IF dest.kind = "buffer"
    THEN [st EXCEPT !.buf = Artifact, !.trace = Append(@, "artifact")]
    ELSE IF ~IsDir(st.fs, Parent(dest.path))
    THEN [st EXCEPT !.err = "FileNotFoundError"]
    ELSE [st EXCEPT !.fs = WriteFile(@, dest.path, Artifact),
                    !.trace = Append(@, "artifact")]

\* savedir_path after lines 109-118
SavedirPath(f, fig_path) ==
    LET parent == Parent(fig_path)
        child == parent \o <<Stem(PathName(fig_path))>>
    IN  Absolute(IF f.as_dir \/ f.zipped
                 THEN IF f.zipped THEN WithSuffix(child, "zip") ELSE child
                 ELSE parent)

\* savedir_path.mkdir(parents=True, exist_ok=True) of line 115
MakeSavedir(st, f, fig_path) ==
    IF f.as_dir /\ ~f.zipped
    THEN LET dir == Parent(fig_path) \o <<Stem(PathName(fig_path))>>
         IN  [st EXCEPT !.fs = Mkdir(@, dir),
                        !.log = @ \cup (Prefixes(Absolute(dir)) \ st.fs.dirs),
                        !.trace = Append(@, "mkdir")]
    ELSE st

\* __save_text and __save_pickle: buffered under the file's NAME when zipped,
\* written loose (creating the parent directories) otherwise.  Nothing runs
\* once an exception is on its way out of savefig.
SavePayload(st, zipped, savedir_path, rel_file_path, content) ==
    LET path == savedir_path \o rel_file_path IN
    IF st.err # "" THEN st
    ELSE IF zipped
    THEN [st EXCEPT !.buffers = Put(@, <<PathName(path)>>, content)]
    ELSE [st EXCEPT !.fs = WriteFile(Mkdir(@, Parent(path)), path, content),
                    !.log = @ \cup (Prefixes(Parent(path)) \ st.fs.dirs) \cup {path},
                    !.trace = Append(@, "file")]
SaveText(st, zipped, savedir_path, rel_file_path, text) ==
    SavePayload(st, zipped, savedir_path, rel_file_path, text)
\* pickle.dump raises on a value it cannot serialise: before the buffer is
\* registered when zipped, after the file was opened (and so created, empty)
\* otherwise
SavePickle(st, zipped, savedir_path, rel_file_path, obj) ==
    IF Picklable(obj)
    THEN SavePayload(st, zipped, savedir_path, rel_file_path, PickleDump(obj))
    ELSE IF st.err # "" THEN st
    ELSE IF zipped THEN [st EXCEPT !.err = "PicklingError"]
    ELSE [SavePayload(st, zipped, savedir_path, rel_file_path, [t |-> "empty"])
            EXCEPT !.err = "PicklingError"]

\* lines 122-138: pip freeze, and conda env export when CONDA_PREFIX is set;
\* a failing command is skipped.  env = [pip: ok?, conda: "unset"|"ok"|"fail"]
SaveEnv(st, f, savedir_path, env) ==
    IF ~f.save_env THEN st
    ELSE LET a == IF env.pip
                  THEN SaveText(st, f.zipped, savedir_path, <<<<"requirements", "txt">>>>,
                                [t |-> "requirements"])
                  ELSE st
         IN  IF env.conda = "ok"
             THEN SaveText(a, f.zipped, savedir_path, <<<<"environment", "yml">>>>,
                           [t |-> "environment"])
             ELSE a

\* rel_path.with_suffix(".py") of lines 150-153: one path segment per
\* segment of the dotted module name
ModuleRelPath(module_name) ==
    WithSuffix([i \in 1..Len(module_name) |-> <<module_name[i]>>], "py")

\* lines 140-167
SaveSource(st, f, savedir_path) ==
    IF f.plot_module # <<>>
    THEN LET fun_name == f.plot_fun.name
             module_name == f.plot_module
             a == SaveText(st, f.zipped, savedir_path, ModuleRelPath(module_name),
                           ModuleSource(f.plot_fun.file))
         IN  IF fun_name # DottedStr(module_name)
             THEN SaveText(a, f.zipped, savedir_path, <<<<fun_name, "py">>>>,
                           ShimText(module_name, fun_name))
             ELSE a
    ELSE IF f.plot_fun.kind # "none"
    THEN SaveText(st, f.zipped, savedir_path, <<<<f.plot_fun.name, "py">>>>,
                  FunSource(f.plot_fun))
    ELSE st

\* (a variant that ignores the excluded names)
ArgsToSaveAll(f) == DOMAIN f.data

\* lines 173-177
ArgsToSave(f) == DOMAIN f.data \ f.excluded_args
RECURSIVE SaveArgs(_, _, _, _)
SaveArgs(st, f, savedir_path, args) ==
    IF args = {} THEN st
    ELSE LET arg == CHOOSE a \in args : TRUE
             value == f.data[arg]
             next == IF ~IsInstance(value, f.excluded_types)
                     THEN SavePickle(st, f.zipped, savedir_path,
                                     <<<<arg, "pickle">>>>, value)
                     ELSE st
         IN  SaveArgs(next, f, savedir_path, args \ {arg})
SaveData(st, f, savedir_path) == SaveArgs(st, f, savedir_path, ArgsToSave(f))

\* lines 179-184: the buffered entries go into the archive, then the buffer
\* is cleared
FlushZip(st, f, savedir_path) ==
    LET a == IF f.zipped
             THEN LET zip == WithSuffix(savedir_path, "zip") IN
                  [st EXCEPT !.fs = WriteFile(@, zip, [t |-> "zip", entries |-> st.buffers]),
                             !.log = @ \cup {zip},
                             !.trace = Append(@, "zip")]
             ELSE st
    IN  IF st.err # "" THEN st ELSE [a EXCEPT !.buffers = EmptyMap]

\* lines 186-198
SaveRcParams(st, f, savedir_path, rc) ==
    SaveText(st, f.zipped, savedir_path, <<<<"matplotlibrc">>>>, RcText(rc))

\* (a variant that backs up first and renders last)
SavefigBaseLast(st, f, dest, env, rc) ==
    LET fig_path == ResolveFname(dest) IN
    IF fig_path = <<>> THEN BaseSavefig(st, dest)
    ELSE LET savedir_path == SavedirPath(f, fig_path)
             s0 == MakeSavedir([st EXCEPT !.buffers = EmptyMap], f, fig_path)
             s1 == SaveEnv(s0, f, savedir_path, env)
             s2 == SaveSource(s1, f, savedir_path)
             s3 == SaveData(s2, f, savedir_path)
             s4 == FlushZip(s3, f, savedir_path)
             s5 == SaveRcParams(s4, f, savedir_path, rc)
         IN  IF s5.err # "" THEN s5 ELSE BaseSavefig(s5, dest)

\* The whole of savefig on figure f: st = [fs, buf, buffers, log, err, trace]
\* on entry, with buffers the figure's __buffers.  An exception of the base
\* class's savefig leaves savefig at once.
Savefig(st, f, dest, env, rc) ==
    LET based == BaseSavefig(st, dest)
        fig_path == ResolveFname(dest)
    IN  IF fig_path = <<>> \/ based.err # "" THEN based
        ELSE LET savedir_path == SavedirPath(f, fig_path)
                 s0 == MakeSavedir([based EXCEPT !.buffers = EmptyMap], f, fig_path)
                 s1 == SaveEnv(s0, f, savedir_path, env)
                 s2 == SaveSource(s1, f, savedir_path)
                 s3 == SaveData(s2, f, savedir_path)
                 s4 == FlushZip(s3, f, savedir_path)
             IN  SaveRcParams(s4, f, savedir_path, rc)

\* ============================================================== the Reader
\* Every Reader operation works on r = [fs, sysPath, rc] and returns it
\* updated, with err ("" when it returned) and its value val.
Ok(r, val) == [fs |-> r.fs, sysPath |-> r.sysPath, rc |-> r.rc, err |-> "", val |-> val]
Raise(r, err) == [fs |-> r.fs, sysPath |-> r.sysPath, rc |-> r.rc, err |-> err, val |-> <<>>]
Env(x) == [fs |-> x.fs, sysPath |-> x.sysPath, rc |-> x.rc]

\* zip.extractall(dir): every entry is written under dir
RECURSIVE ExtractAll(_, _, _, _)
ExtractAll(fsys, entries, names, dir) ==
    IF names = {} THEN Mkdir(fsys, dir)
    ELSE LET n == CHOOSE x \in names : TRUE
             target == dir \o n
         IN  ExtractAll(WriteFile(Mkdir(fsys, Parent(target)), target, entries[n]),
                        entries, names \ {n}, dir)

\* _extract_if_zip, lines 144-161.  extractall is given path.stem, a bare
\* name, so the archive is extracted into that directory of the working
\* directory.
ExtractIfZip(r, path) ==
    IF IsDir(r.fs, path) THEN Ok(r, path)
    ELSE IF Suffix(PathName(path)) = "zip" /\ ~IsFile(r.fs, path)
    THEN Raise(r, "FileNotFoundError")
    ELSE IF Suffix(PathName(path)) = "zip" /\ r.fs.files[Absolute(path)].t # "zip"
    THEN Raise(r, "BadZipFile")
    ELSE LET extracted ==
                 IF Suffix(PathName(path)) = "zip"
                 THEN LET zip == r.fs.files[Absolute(path)] IN
                      [r EXCEPT !.fs = ExtractAll(@, zip.entries, DOMAIN zip.entries,
                                                  <<Stem(PathName(path))>>)]
                 ELSE r
             stripped == WithSuffix(path, "")
             zipped == WithSuffix(stripped, "zip")
         IN  IF Exists(extracted.fs, stripped) THEN Ok(extracted, stripped)
             ELSE IF Exists(extracted.fs, zipped) THEN Ok(extracted, zipped)
             ELSE Raise(extracted, "NotFound")

\* recover_data, lines 113-118: stem -> unpickled value of every *.pickle
\* file directly inside the normalized path
RecoverData(r, path) ==
    LET n == ExtractIfZip(r, path) IN
    IF n.err # "" THEN n
    ELSE LET files == Glob(n.fs, n.val, "pickle")
             stems == { DottedStr(Stem(PathName(p))) : p \in files }
         IN  Ok(n, [k \in stems |->
                      LET p == CHOOSE q \in files : DottedStr(Stem(PathName(q))) = k
                      IN  PickleLoads(n.fs.files[Absolute(p)])])

\* ------------------------------------------------------ importing modules
\* The Reader process: the file run as its __main__ and the modules
\* installed in its environment (module name -> source file).
InstalledFile(module_name) ==
    IF module_name = <<"spylt", "_testing">> THEN "_testing.py"
    ELSE IF module_name = <<"plots", "figure">> THEN "plots/figure.py"
    ELSE ""

\* st_size of a file
FileSize(content) ==
    IF content.t = "text" THEN Len(content.text)
    ELSE IF content.t = "funsource" THEN 91
    ELSE IF content.t = "source"
    THEN (IF content.file = "_testing.py" THEN 5945
          ELSE IF content.file = "plot_fun_in_main.py" THEN 346
          ELSE 60)
    ELSE 0

\* the file a dotted module name resolves to under search-path entry dir
ModuleFilePath(dir, module_name) ==
    dir \o WithSuffix([i \in 1..Len(module_name) |-> <<module_name[i]>>], "py")

NoModule == [ok |-> FALSE, defs |-> EmptyMap]
\* importlib.import_module(module_name): the module's top-level functions.
\* __main__ is the Reader's own main module; an installed module wins over
\* the search path; otherwise the first search-path entry holding the file
\* is executed.  A re-import file `from m import f` imports m in turn.
RECURSIVE ImportModule(_, _, _, _, _)
ImportModule(module_name, fsys, sys_path, main, depth) ==
    IF depth = 0 THEN NoModule
    ELSE IF module_name = <<"__main__">> THEN [ok |-> TRUE, defs |-> FileDefs(main)]
    ELSE IF InstalledFile(module_name) # ""
    THEN [ok |-> TRUE, defs |-> FileDefs(InstalledFile(module_name))]
    ELSE LET hits == { i \in 1..Len(sys_path) :
                         IsFile(fsys, ModuleFilePath(sys_path[i], module_name)) }
         IN  IF hits = {} THEN NoModule
             ELSE LET i == CHOOSE h \in hits : \A g \in hits : h <= g
                      c == fsys.files[Absolute(ModuleFilePath(sys_path[i], module_name))]
                  IN  IF c.t = "source" THEN [ok |-> TRUE, defs |-> FileDefs(c.file)]
                      ELSE IF c.t = "funsource"
                      THEN [ok |-> TRUE, defs |-> [n \in {c.name} |-> c.src]]
                      ELSE IF c.t = "text"
                      THEN LET m == ImportModule(c.module, fsys, sys_path, main, depth - 1)
                           IN  IF m.ok /\ c.fun \in DOMAIN m.defs
                               THEN [ok |-> TRUE, defs |-> [n \in {c.fun} |-> m.defs[c.fun]]]
                               ELSE NoModule
                      ELSE NoModule

\* the parts of a path's names, split at the dots as import does
RECURSIVE Flatten(_)
Flatten(p) == IF Len(p) = 0 THEN <<>> ELSE Head(p) \o Flatten(Tail(p))

\* PurePath.is_relative_to; Path(".") has no parts
IsRelativeTo(p, other) == IsAbsolute(p) = IsAbsolute(other) /\ IsPrefix(other, p)

\* _module_from_file_and_parent_paths, lines 164-171: val is the module
ModuleFromFileAndParentPaths(r, pyfile_path, parent_path, main) ==
    LET appended == IF IsAbsolute(parent_path) /\ ~IsRelativeTo(parent_path, <<>>)
                    THEN [r EXCEPT !.sysPath = Append(@, Parent(parent_path))]
                    ELSE r
        rel == IF IsAbsolute(parent_path)
               THEN RelativeTo(pyfile_path, Parent(parent_path))
               ELSE pyfile_path
        module_name == Flatten(WithSuffix(rel, ""))
        module == ImportModule(module_name, appended.fs, appended.sysPath, main, 2)
    IN  IF module.ok THEN Ok(appended, module.defs) ELSE Raise(appended, "ImportError")

\* getattr(module, p.stem) of lines 80 and 89
GetFun(m, p) ==
    LET name == DottedStr(Stem(PathName(p))) IN
    IF m.err # "" THEN m
    ELSE IF name \in DOMAIN m.val THEN Ok(m, [name |-> name, src |-> m.val[name]])
    ELSE Raise(m, "AttributeError")

\* (a variant that imports the larger of the two files)
RecoverFunLarger(r, path, reversed, main) ==
    LET n == ExtractIfZip(r, path) IN
    IF n.err # "" THEN n
    ELSE LET py_files == RGlob(n.fs, n.val, "py") IN
         IF Cardinality(py_files) = 1
         THEN LET p == CHOOSE q \in py_files : TRUE
              IN  GetFun(ModuleFromFileAndParentPaths(Env(n), p, n.val, main), p)
         ELSE IF Cardinality(py_files) = 2
         THEN LET a == CHOOSE q \in py_files : TRUE
                  b == CHOOSE q \in py_files : q # a
                  p0 == IF reversed THEN b ELSE a
                  p1 == IF reversed THEN a ELSE b
                  size0 == FileSize(n.fs.files[Absolute(p0)])
                  size1 == FileSize(n.fs.files[Absolute(p1)])
                  module_idx == IF size0 < size1 THEN 1 ELSE 0
                  p == IF module_idx = 0 THEN p0 ELSE p1
              IN  GetFun(ModuleFromFileAndParentPaths(Env(n), p, n.val, main), p)
         ELSE Raise(n, "CorruptBackup")

\* recover_fun, lines 73-95.  py_files is the directory listing, in the
\* order the file system gives it: one order or, when `reversed`, the other.
RecoverFun(r, path, reversed, main) ==
    LET n == ExtractIfZip(r, path) IN
    IF n.err # "" THEN n
    ELSE LET py_files == RGlob(n.fs, n.val, "py") IN
         IF Cardinality(py_files) = 1
         THEN LET p == CHOOSE q \in py_files : TRUE
              IN  GetFun(ModuleFromFileAndParentPaths(Env(n), p, n.val, main), p)
         ELSE IF Cardinality(py_files) = 2
         THEN LET a == CHOOSE q \in py_files : TRUE
                  b == CHOOSE q \in py_files : q # a
                  p0 == IF reversed THEN b ELSE a
                  p1 == IF reversed THEN a ELSE b
                  size0 == FileSize(n.fs.files[Absolute(p0)])
                  size1 == FileSize(n.fs.files[Absolute(p1)])
                  module_idx == IF size0 < size1 THEN 1 ELSE 0
                  p == IF 1 - module_idx = 0 THEN p0 ELSE p1
              IN  GetFun(ModuleFromFileAndParentPaths(Env(n), p, n.val, main), p)
         ELSE Raise(n, "CorruptBackup")

\* recover_rcParams, lines 136-141
RecoverRcParams(r, path) ==
    LET n == ExtractIfZip(r, path) IN
    IF n.err # "" THEN n
    ELSE LET file == n.val \o <<<<"matplotlibrc">>>> IN
         IF ~IsFile(n.fs, file) \/ n.fs.files[Absolute(file)].t # "rc"
         THEN Raise(n, "FileNotFoundError")
         ELSE LET saved_rc == n.fs.files[Absolute(file)].lines
                  updated == [k \in DOMAIN n.rc \cup DOMAIN saved_rc |->
                                IF k \in DOMAIN saved_rc THEN saved_rc[k] ELSE n.rc[k]]
              IN  Ok([n EXCEPT !.rc = updated], updated)

\* recover, lines 51-55
\* recover(): each step runs in the environment the previous one left, and
\* the first exception propagates.
RecoverWithRc(data, fun, rc) ==
    IF rc.err # "" THEN rc
    ELSE Ok(rc, [fun |-> fun.val, data |-> data.val])

RecoverWithFun(n, data, fun) ==
    IF fun.err # "" THEN fun
    ELSE RecoverWithRc(data, fun, RecoverRcParams(Env(fun), n.val))

RecoverWithData(n, data, reversed, main) ==
    IF data.err # "" THEN data
    ELSE RecoverWithFun(n, data, RecoverFun(Env(data), n.val, reversed, main))

RecoverFrom(n, reversed, main) ==
    IF n.err # "" THEN n
    ELSE RecoverWithData(n, RecoverData(Env(n), n.val), reversed, main)

Recover(r, path, reversed, main) ==
    RecoverFrom(ExtractIfZip(r, path), reversed, main)

\* ============================================================ wrappers.py
\* A data value of the calls below, beside those of the Writer's runs.
ListY == [ty |-> "list", repr |-> "[1, 2]"]
StrB == [ty |-> "str", repr |-> "b"]
StrG == [ty |-> "str", repr |-> "g"]
StrDashes == [ty |-> "str", repr |-> "--"]
\* func.__self__ of a function that is no bound method: getattr's default
NoInstance == [ty |-> "NoneType", repr |-> "None"]
\* tm.Plot(): an instance of a class defining neither __bool__ nor __len__
PlotObj == [ty |-> "Plot", repr |-> "<Plot>"]
\* an instance of a plotting class that is an empty container (its __len__
\* gives 0)
EmptyPlots == [ty |-> "Plots", repr |-> "[]"]
\* bool(v), as `if parent_instance` takes it
Truthy(v) == v \notin {NoInstance, EmptyPlots}

\* {**a, **b} and a.update(b)
DictUpdate(a, b) ==
    [k \in DOMAIN a \cup DOMAIN b |-> IF k \in DOMAIN b THEN b[k] ELSE a[k]]

\* A function handed to the decorator, as inspect.getfullargspec and
\* __self__ describe it: args (the bound instance's parameter included),
\* defaults of the last args, kwonlydefaults, whether it takes *args and
\* **kwargs, the instance it is bound to, and the plot function it is.
DecoratedFun(name, kind) ==
    [name |-> name, module |-> <<"spylt", "_testing">>, hasFile |-> TRUE,
     file |-> "_testing.py", src |-> "def " \o name, kind |-> kind]
\* tm.paramed_plot(y, c="g", ls="--", **kwargs)
ParamedPlot ==
    [args |-> <<"y", "c", "ls">>, defaults |-> <<StrG, StrDashes>>,
     kwonly |-> {}, kwonlydefaults |-> EmptyMap, varargs |-> FALSE, varkw |-> TRUE,
     self |-> NoInstance, fun |-> DecoratedFun("paramed_plot", "function")]
\* a function with a keyword-only parameter: scatter(y, *, size=1)
KwOnlyPlot ==
    [args |-> <<"y">>, defaults |-> <<>>,
     kwonly |-> {"size"}, kwonlydefaults |-> [n \in {"size"} |-> Int1],
     varargs |-> FALSE, varkw |-> FALSE,
     self |-> NoInstance, fun |-> DecoratedFun("scatter", "function")]
\* a function taking any number of series: stacked(y, *more)
VarArgsPlot ==
    [args |-> <<"y">>, defaults |-> <<>>,
     kwonly |-> {}, kwonlydefaults |-> EmptyMap, varargs |-> TRUE, varkw |-> FALSE,
     self |-> NoInstance, fun |-> DecoratedFun("stacked", "function")]
\* tm.SpyllingPlot.figure: decorated in the class body, so a plain function
\* that is passed the instance as its first positional argument
UnboundMethod ==
    [args |-> <<"self">>, defaults |-> <<>>,
     kwonly |-> {}, kwonlydefaults |-> EmptyMap, varargs |-> FALSE, varkw |-> FALSE,
     self |-> NoInstance, fun |-> DecoratedFun("figure", "method")]
\* spylling()(obj.draw) for a method draw(self, y, c="g") bound to obj
BoundMethod(obj) ==
    [args |-> <<"self", "y", "c">>, defaults |-> <<StrG>>,
     kwonly |-> {}, kwonlydefaults |-> EmptyMap, varargs |-> FALSE, varkw |-> FALSE,
     self |-> obj, fun |-> DecoratedFun("draw", "method")]
Signatures ==
    {ParamedPlot, KwOnlyPlot, VarArgsPlot, UnboundMethod,
     BoundMethod(PlotObj), BoundMethod(EmptyPlots)}

\* wrapper_plot, lines 154-164: the data mapping of one call, or the
\* IndexError of argspec.args[i]
WrapperData(sig, args, kwargs) ==
    LET na == Len(sig.args)
        nd == Len(sig.defaults)
        defaults == [n \in { sig.args[na - i] : i \in 0..(nd - 1) } |->
                       LET i == CHOOSE j \in 0..(nd - 1) : sig.args[na - j] = n
                       IN  sig.defaults[nd - i]]
        data == DictUpdate(sig.kwonlydefaults, defaults)
        arg_iter == IF Truthy(sig.self) THEN <<sig.self>> \o args ELSE args
    IN  IF Len(arg_iter) > na THEN [err |-> "IndexError", data |-> EmptyMap]
        ELSE [err |-> "",
              data |-> DictUpdate(
                         DictUpdate(data,
                                    [n \in { sig.args[i] : i \in 1..Len(arg_iter) } |->
                                       LET i == CHOOSE j \in 1..Len(arg_iter) :
                                                    sig.args[j] = n
                                       IN  arg_iter[i]]),
                         kwargs)]

\* functools.partial(func, FigureClass=SpyllingFigure, **kwargs)
Partial(func, kwargs) == [kind |-> "partial", func |-> func, kwargs |-> kwargs]
\* the keyword arguments SpyllingContext hands to the partial, lines 59-68
ContextKwargs(plot_fun, data, as_dir, zipped) ==
    [plot_fun |-> plot_fun, data |-> data, as_dir |-> as_dir, zipped |-> zipped]
NoKwargs == [none |-> TRUE]
\* a matplotlib Figure that is no SpyllingFigure
PlainFigure == [plain |-> TRUE]
\* plt.figure(): the installed factory is called; a partial calls its func
\* with its keywords, those of the outermost call winning
RECURSIVE MakeFigure(_, _)
MakeFigure(factory, kwargs) ==
    IF factory.kind = "partial"
    THEN MakeFigure(factory.func, IF kwargs = NoKwargs THEN factory.kwargs ELSE kwargs)
    ELSE IF kwargs = NoKwargs THEN PlainFigure
    ELSE NewFigure(kwargs.plot_fun, kwargs.data, kwargs.as_dir, kwargs.zipped,
                   {}, {}, FALSE)

\* SpyllingContext up to its yield, lines 69-77: func is whatever pyplot's
\* figure is now; a partial object has no __qualname__, so line 71 raises
\* AttributeError when func is one
SpyllingContextEnter(func, kwargs) ==
    IF func.kind # "function"
    THEN [err |-> "AttributeError", figure |-> func]
    ELSE [err |-> "", figure |-> Partial(func, kwargs)]

\* ================================================================ the model
\* Where figures are saved: in the working directory, under an absolute
\* directory, and with a dot in the stem.
FigPaths ==
    { << <<"fig", "png">> >>,
      << Root, <<"tmp">>, <<"fig", "png">> >>,
      << Root, <<"tmp">>, <<"plot", "v2", "png">> >> }
Dests ==
    { PathDest(p) : p \in FigPaths }
      \cup {FileLikeDest(<< Root, <<"tmp">>, <<"fig", "png">> >>), BufferDest}
\* The destinations of the runs that vary the data or repeat the persist
DataDests == { PathDest(p) : p \in { q \in FigPaths : Len(PathName(q)) = 2 } }
\* What the Reader is handed for a figure saved at p: the figure's path, the
\* archive's, the backup directory's
ReadPaths(p) == {p, WithSuffix(p, "zip"), WithSuffix(p, "")}
\* The file run as the Reader's __main__: the script that saved the figure,
\* or some other program
Mains == {"plot_fun_in_main.py", "other"}

Policies == [as_dir : BOOLEAN, zipped : BOOLEAN]
NoEnv == [pip |-> FALSE, conda |-> "unset"]
Envs == [pip : BOOLEAN, conda : {"unset", "ok", "fail"}]

\* Figures varying the plot function, the policy and whether there is data
Figures ==
    { NewFigure(pf, d, pol.as_dir, pol.zipped, {}, {}, FALSE) :
        pf \in PlotFuns \cup {NoFun},
        d \in {EmptyMap, [n \in {"arg"} |-> Int1]},
        pol \in Policies }
      \cup { NewFigure(NoFun, EmptyMap, pol.as_dir, pol.zipped, {}, {}, TRUE) :
                pol \in Policies }
\* Figures varying the data and the two exclusion filters
DataFigures ==
    { NewFigure(NoFun, d, pol.as_dir, pol.zipped, ea, et, FALSE) :
        d \in [{"a", "b"} -> Values],
        pol \in Policies,
        ea \in {{}, {"a"}},
        et \in {{}, {"int"}, {"str"}} }
\* Figures saved one after the other into the same place
RepeatFigures ==
    { NewFigure(pf, EmptyMap, as_dir, FALSE, {}, {}, FALSE) :
        pf \in PlotFuns \cup {NoFun}, as_dir \in BOOLEAN }

NoSaved == [none |-> TRUE]
\* matplotlib.rcParams when the process starts
InitialRcParams ==
    [k \in {"lines.linestyle", "savefig.bbox", "backend"} |->
       IF k = "lines.linestyle" THEN "-"
       ELSE IF k = "savefig.bbox" THEN "None" ELSE "agg"]
NoOp == [op |-> "none"]
\* matplotlib.pyplot.figure as the library defines it: a plain function
PyplotFigure == [kind |-> "function", name |-> "figure"]

Init ==
    /\ fs = [files |-> EmptyMap, dirs |-> {<<Root>>, Cwd, <<Root, <<"tmp">>>>}]
    /\ fig = NoFig
    /\ buf = [t |-> "empty"]
    /\ rcParams = InitialRcParams
    /\ sysPath = <<Cwd>>
    /\ last = NoOp
    /\ saved = NoSaved
    /\ nSaves = 0
    /\ nReads = 0
    /\ pltFigure = PyplotFigure
    /\ scopes = <<>>
    /\ nEnters = 0

\* fig = SpyllingFigure(plot_fun=..., data=..., ...); the Writer runs before
\* the Reader does
Construct(f, max) ==
    /\ nSaves < max
    /\ nReads = 0
    /\ fig' = f
    /\ last' = [op |-> "init"]
    /\ UNCHANGED <<fs, buf, rcParams, sysPath, saved, nSaves, nReads, pltFigure, scopes, nEnters>>

\* fig.savefig(dest)
Persist(max, dests) ==
    /\ fig # NoFig
    /\ nSaves < max
    /\ nReads = 0
    /\ \E dest \in dests, env \in (IF fig.save_env THEN Envs ELSE {NoEnv}) :
         LET st == [fs |-> fs, buf |-> buf, buffers |-> fig.buffers, log |-> {},
                    err |-> "", trace |-> <<>>]
             out == Savefig(st, fig, dest, env, rcParams)
         IN  /\ fs' = out.fs
             /\ buf' = out.buf
             /\ fig' = [fig EXCEPT !.buffers = out.buffers]
             /\ last' = [op |-> "savefig", fig |-> fig, dest |-> dest, env |-> env,
                         pre |-> fs, log |-> out.log, err |-> out.err,
                         trace |-> out.trace]
             /\ saved' = IF ResolveFname(dest) = <<>> \/ out.trace = <<>> THEN saved
                         ELSE [fig |-> fig, path |-> ResolveFname(dest), pre |-> fs,
                               post |-> out.fs]
             /\ nSaves' = nSaves + 1
    /\ UNCHANGED <<rcParams, sysPath, nReads, pltFigure, scopes, nEnters>>

CallInit == \E f \in Figures : Construct(f, MaxSaves)
CallSavefig == Persist(MaxSaves, Dests)

CallInitData == \E f \in DataFigures : Construct(f, MaxSaves)
CallSavefigData == Persist(MaxSaves, DataDests)

CallInitRepeat == \E f \in RepeatFigures : Construct(f, MaxRepeats)
CallSavefigRepeat == Persist(MaxRepeats, DataDests)

Reader == [fs |-> fs, sysPath |-> sysPath, rc |-> rcParams]
Returned(opname, path, main, out) ==
    /\ fs' = out.fs
    /\ sysPath' = out.sysPath
    /\ rcParams' = out.rc
    /\ last' = [op |-> opname, path |-> path, main |-> main, pre |-> Reader,
                err |-> out.err, val |-> out.val]
    /\ nReads' = nReads + 1
    /\ UNCHANGED <<fig, buf, saved, nSaves, pltFigure, scopes, nEnters>>

Readable == saved # NoSaved /\ nReads < MaxReads

\* spylt.recover_data(path)
CallRecoverData ==
    /\ Readable
    /\ \E path \in ReadPaths(saved.path) :
         Returned("recover_data", path, "other", RecoverData(Reader, path))

\* spylt.recover_fun(path)
CallRecoverFun ==
    /\ Readable
    /\ \E path \in ReadPaths(saved.path), reversed \in BOOLEAN, main \in Mains :
         Returned("recover_fun", path, main, RecoverFun(Reader, path, reversed, main))

\* spylt.recover_rcParams(path)
CallRecoverRcParams ==
    /\ Readable
    /\ \E path \in ReadPaths(saved.path) :
         Returned("recover_rcParams", path, "other", RecoverRcParams(Reader, path))

\* spylt.recover(path)
CallRecover ==
    /\ Readable
    /\ \E path \in ReadPaths(saved.path), reversed \in BOOLEAN, main \in Mains :
         Returned("recover", path, main, Recover(Reader, path, reversed, main))


\* Persists that fail: into a directory that does not exist, or with a value
\* that cannot be pickled
FailFigures ==
    { NewFigure(pf, d, pol.as_dir, pol.zipped, {}, {}, FALSE) :
        pf \in {NoFun, FunInModule},
        d \in {EmptyMap, [n \in {"a"} |-> Int1], [n \in {"a"} |-> Lambda],
               [n \in {"a", "b"} |-> IF n = "a" THEN Int1 ELSE Lambda]},
        pol \in Policies }
FailDests == DataDests \cup {PathDest(<< Root, <<"nodir">>, <<"fig", "png">> >>), BufferDest}
CallInitFail == \E f \in FailFigures : Construct(f, MaxRepeats)
CallSavefigFail == Persist(MaxRepeats, FailDests)

\* Backups holding a module's source and a re-import file
TwoFileFigures ==
    { NewFigure(pf, d, TRUE, FALSE, {}, {}, FALSE) :
        pf \in {FunInModule, Method, FunInMain, FunInPackage, FunInLocalModule},
        d \in {EmptyMap, [n \in {"arg"} |-> Int1]} }
CallInitTwoFiles == \E f \in TwoFileFigures : Construct(f, MaxSaves)

\* Generator recovery given relative and absolute paths, under the working
\* directory and outside it
SearchFigures ==
    { NewFigure(pf, d, pol.as_dir, pol.zipped, {}, {}, FALSE) :
        pf \in {NoFun, FunInModule, FunSharingName, FunInInteractive},
        d \in {EmptyMap, [n \in {"arg"} |-> Int1]},
        pol \in Policies }
AnyReadPaths(p) == ReadPaths(p) \cup { Absolute(q) : q \in ReadPaths(p) }
CallInitSearch == \E f \in SearchFigures : Construct(f, MaxSaves)
CallRecoverFunAnywhere ==
    /\ Readable
    /\ \E path \in AnyReadPaths(saved.path), reversed \in BOOLEAN :
         Returned("recover_fun", path, "other", RecoverFun(Reader, path, reversed, "other"))

\* Persists that follow one another at one path under one policy, each by a
\* figure with its own data, and the data read back afterwards
LatestFigures ==
    { NewFigure(NoFun, d, pol.as_dir, pol.zipped, ea, {}, FALSE) :
        d \in UNION { [names -> {Int1, StrS}] : names \in SUBSET {"a", "b"} },
        pol \in Policies,
        ea \in {{}, {"a"}} }
SamePolicy(f, g) == f.as_dir = g.as_dir /\ f.zipped = g.zipped
CallInitLatest ==
    \E f \in LatestFigures :
        /\ saved # NoSaved => SamePolicy(f, saved.fig)
        /\ Construct(f, MaxRepeats)
CallSavefigLatest ==
    Persist(MaxRepeats, IF saved = NoSaved THEN DataDests ELSE {PathDest(saved.path)})

\* The normalization every Reader operation starts with: _extract_if_zip(path)
CallExtractIfZip ==
    /\ Readable
    /\ \E path \in ReadPaths(saved.path) :
         Returned("_extract_if_zip", path, "other", ExtractIfZip(Reader, path))

\* Reader operations one after the other on the same backup
OrderFigures ==
    { NewFigure(pf, [n \in {"arg"} |-> Int1], pol.as_dir, pol.zipped, {}, {}, FALSE) :
        pf \in {FunInModule, FunInInteractive}, pol \in Policies }
CallInitOrder == \E f \in OrderFigures : Construct(f, MaxSaves)
ReadableAgain == saved # NoSaved /\ nReads < MaxOrderReads
CallRecoverDataOrder ==
    /\ ReadableAgain
    /\ \E path \in ReadPaths(saved.path) :
         Returned("recover_data", path, "other", RecoverData(Reader, path))
CallRecoverFunOrder ==
    /\ ReadableAgain
    /\ \E path \in ReadPaths(saved.path), reversed \in BOOLEAN :
         Returned("recover_fun", path, "other", RecoverFun(Reader, path, reversed, "other"))
CallRecoverRcParamsOrder ==
    /\ ReadableAgain
    /\ \E path \in ReadPaths(saved.path) :
         Returned("recover_rcParams", path, "other", RecoverRcParams(Reader, path))
CallRecoverOrder ==
    /\ ReadableAgain
    /\ \E path \in ReadPaths(saved.path), reversed \in BOOLEAN :
         Returned("recover", path, "other", Recover(Reader, path, reversed, "other"))

\* ---------------------------------------------- decorator and context runs
\* The calls made of a decorated function
Calls(sig) ==
    IF sig = ParamedPlot
    THEN { [args |-> a, kwargs |-> k] :
             a \in {<<ListY>>, <<ListY, StrB>>},
             k \in {EmptyMap, [n \in {"c"} |-> StrB], [n \in {"ls"} |-> StrB],
                    [n \in {"lw"} |-> Int1]} }
    ELSE IF sig = KwOnlyPlot
    THEN { [args |-> <<ListY>>, kwargs |-> k] :
             k \in {EmptyMap, [n \in {"size"} |-> BoolT]} }
    ELSE IF sig = VarArgsPlot
    THEN { [args |-> a, kwargs |-> EmptyMap] : a \in {<<ListY>>, <<ListY, ListY>>} }
    ELSE IF sig = UnboundMethod
    THEN { [args |-> <<PlotObj>>, kwargs |-> EmptyMap] }
    ELSE { [args |-> a, kwargs |-> k] :
             a \in {<<ListY>>, <<ListY, StrB>>},
             k \in {EmptyMap, [n \in {"c"} |-> StrB]} }
NoCall == [none |-> TRUE]
\* The metadata of the scopes opened directly
\* The policies given to the decorator and to the scopes: the default and
\* the one of test_decorator_passes_metadata
DecoratorPolicies ==
    {[as_dir |-> TRUE, zipped |-> FALSE], [as_dir |-> FALSE, zipped |-> TRUE]}
ContextMetadata ==
    { ContextKwargs(pf, d, pol.as_dir, pol.zipped) :
        pf \in {NoFun, FunInModule},
        d \in {EmptyMap, [n \in {"arg"} |-> Int1]},
        pol \in DecoratorPolicies }

\* A scope is entered, or its entry raises: lines 69-79
Entered(opname, call, kwargs) ==
    LET out == SpyllingContextEnter(pltFigure, kwargs) IN
    /\ pltFigure' = out.figure
    /\ scopes' = IF out.err = ""
                 THEN Append(scopes, [func |-> pltFigure, kwargs |-> kwargs,
                                      call |-> call])
                 ELSE scopes
    /\ last' = [op |-> opname, call |-> call, kwargs |-> kwargs, err |-> out.err,
                pre |-> pltFigure]
    /\ nEnters' = nEnters + 1
    /\ UNCHANGED <<fs, fig, buf, rcParams, sysPath, saved, nSaves, nReads>>

\* with SpyllingContext(...): up to the body
CallSpyllingContext ==
    /\ nEnters < MaxEnters
    /\ \E kwargs \in ContextMetadata : Entered("SpyllingContext", NoCall, kwargs)

\* spylling(as_dir, zipped)(func)(*args, **kwargs): wrapper_plot up to the
\* call of func
CallWrapperPlot ==
    /\ nEnters < MaxEnters
    /\ \E sig \in Signatures, pol \in DecoratorPolicies :
         \E c \in Calls(sig) :
           LET call == [sig |-> sig, args |-> c.args, kwargs |-> c.kwargs]
               bound == WrapperData(sig, c.args, c.kwargs)
           IN  IF bound.err # ""
               THEN /\ last' = [op |-> "wrapper_plot", call |-> call,
                                kwargs |-> NoKwargs, err |-> bound.err,
                                pre |-> pltFigure]
                    /\ nEnters' = nEnters + 1
                    /\ UNCHANGED <<fs, fig, buf, rcParams, sysPath, saved, nSaves,
                                   nReads, pltFigure, scopes>>
               ELSE Entered("wrapper_plot", call,
                            ContextKwargs(sig.fun, bound.data, pol.as_dir, pol.zipped))

\* plt.figure() in the body of a scope or outside any
CallPltFigure ==
    /\ fig' = MakeFigure(pltFigure, NoKwargs)
    /\ last' = [op |-> "figure", pre |-> pltFigure]
    /\ UNCHANGED <<fs, buf, rcParams, sysPath, saved, nSaves, nReads, pltFigure, scopes, nEnters>>

\* The innermost scope is left, lines 80-81: its body completed, returned
\* early, or raised
ExitScope ==
    /\ Len(scopes) > 0
    /\ \E how \in {"completed", "returned", "raised"} :
         LET top == scopes[Len(scopes)] IN
         /\ pltFigure' = top.func
         /\ scopes' = SubSeq(scopes, 1, Len(scopes) - 1)
         /\ last' = [op |-> "exit", how |-> how, entered |-> top.func,
                     pre |-> pltFigure]
    /\ UNCHANGED <<fs, fig, buf, rcParams, sysPath, saved, nSaves, nReads, nEnters>>

Next ==
    \/ CallInit
    \/ CallSavefig
    \/ CallRecoverData
    \/ CallRecoverFun
    \/ CallRecoverRcParams
    \/ CallRecover

Spec == Init /\ [][Next]_vars

\* The Writer alone
NextWriter == CallInit \/ CallSavefig
SpecWriter == Init /\ [][NextWriter]_vars

\* Data capture and data recovery, over the data and the exclusion filters
NextData == CallInitData \/ CallSavefigData \/ CallRecoverData
SpecData == Init /\ [][NextData]_vars

\* Data capture alone
NextCapture == CallInitData \/ CallSavefigData
SpecCapture == Init /\ [][NextCapture]_vars

\* Repeated persists
NextRepeat == CallInitRepeat \/ CallSavefigRepeat
SpecRepeat == Init /\ [][NextRepeat]_vars

\* Persisting, then normalizing a path of the backup
NextNormalize == CallInit \/ CallSavefig \/ CallExtractIfZip
SpecNormalize == Init /\ [][NextNormalize]_vars

\* Persisting once, then reading repeatedly
NextOrder ==
    \/ CallInitOrder
    \/ CallSavefigData
    \/ CallRecoverDataOrder
    \/ CallRecoverFunOrder
    \/ CallRecoverRcParamsOrder
    \/ CallRecoverOrder
SpecOrder == Init /\ [][NextOrder]_vars

\* Persists that may fail
NextFailure == CallInitFail \/ CallSavefigFail
SpecFailure == Init /\ [][NextFailure]_vars

\* Generator recovery from backups of two Python files
NextTwoFiles == CallInitTwoFiles \/ CallSavefigData \/ CallRecoverFun
SpecTwoFiles == Init /\ [][NextTwoFiles]_vars

\* Generator recovery and the module search path
NextSearchPath == CallInitSearch \/ CallSavefigData \/ CallRecoverFunAnywhere
SpecSearchPath == Init /\ [][NextSearchPath]_vars

\* Persists to one place under one policy, then data recovery
NextLatest == CallInitLatest \/ CallSavefigLatest \/ CallRecoverData
SpecLatest == Init /\ [][NextLatest]_vars

\* The decorator and the context manager
NextWrappers == CallSpyllingContext \/ CallWrapperPlot \/ CallPltFigure \/ ExitScope
SpecWrappers == Init /\ [][NextWrappers]_vars

\* ================================================================ the claims
\* What the last persist was and what it produced.
SavedToPath == last.op = "savefig" /\ ResolveFname(last.dest) # <<>>
FreshFs ==
    [fs |-> last.pre, buf |-> buf, buffers |-> EmptyMap, log |-> {}, err |-> "",
     trace |-> <<>>]
\* The Backup Location as the specification names it, for figure f saved at p
ExpectedLocation(f, p) ==
    LET stem == Stem(PathName(p)) IN
    Absolute(IF f.zipped THEN Parent(p) \o <<stem \o <<"zip">>>>
             ELSE IF f.as_dir THEN Parent(p) \o <<stem>>
             ELSE Parent(p))
\* The archives the last persist wrote
ZipsWritten == { q \in last.log : IsFile(fs, q) /\ fs.files[q].t = "zip" }
\* The payloads of the last persist, by name relative to the Backup Location
\* `loc`: the archive's entries when loc is an archive, else the loose files
\* the persist wrote under loc.
EntriesAt(fsys, log, loc) ==
    IF IsFile(fsys, loc) /\ fsys.files[loc].t = "zip" /\ loc \in log
    THEN fsys.files[loc].entries
    ELSE [rel \in { RelativeTo(q, loc) :
                      q \in { w \in log : /\ w \in DOMAIN fsys.files
                                          /\ IsPrefix(loc, w)
                                          /\ Len(w) > Len(loc) } }
            |-> fsys.files[loc \o rel]]
Entries == EntriesAt(fs, last.log, SavedirPath(last.fig, ResolveFname(last.dest)))
EntriesWithSuffix(entries, ext) ==
    { rel \in DOMAIN entries : Suffix(PathName(rel)) = ext }

\* The entries of a Data Mapping neither filter excludes
RetainedData(f) ==
    LET kept == { n \in DOMAIN f.data :
                    n \notin f.excluded_args /\ ~IsInstance(f.data[n], f.excluded_types) }
    IN  [n \in kept |-> f.data[n]]

\* C1: persisting a figure to path P and then running recover_data on P
\* returns the mapping of the non-excluded entries of the figure's data, under
\* every backup policy.
C1_DataRoundTrip ==
    (last.op = "recover_data" /\ last.path = saved.path)
        => (last.err = "" /\ last.val = RetainedData(saved.fig))

\* C2: persisting a figure with a plot function of any kind to path P and then
\* running recover_fun on P returns a callable whose source text is the plot
\* function's.
C2_GeneratorRoundTrip ==
    (last.op = "recover_fun" /\ last.path = saved.path
        /\ saved.fig.plot_fun.kind # "none")
        => (last.err = "" /\ last.val.src = saved.fig.plot_fun.src)

\* C3: the entries of the archive an archived persist produces are the files
\* the same persist writes loose in directory form: same relative names, same
\* content.
C3_ArchiveEquivalence ==
    (SavedToPath /\ last.fig.zipped)
        => LET p == ResolveFname(last.dest)
               loosefig == [last.fig EXCEPT !.zipped = FALSE, !.as_dir = TRUE]
               loose == Savefig(FreshFs, loosefig, last.dest, last.env, rcParams)
           IN  /\ Cardinality(ZipsWritten) = 1
               /\ \A z \in ZipsWritten :
                    fs.files[z].entries
                      = EntriesAt(loose.fs, loose.log, SavedirPath(loosefig, p))

\* C4: after a persist to a path the Backup Location holds matplotlibrc, as a
\* loose file or as an entry of the archive; an archived persist of a figure
\* with data {arg: 1} and no plot function yields exactly the entries
\* arg.pickle and matplotlibrc.
C4_ConfigInLocation ==
    SavedToPath
        => LET loc == ExpectedLocation(last.fig, ResolveFname(last.dest)) IN
           IF last.fig.zipped
           THEN /\ IsFile(fs, loc)
                /\ fs.files[loc].t = "zip"
                /\ <<<<"matplotlibrc">>>> \in DOMAIN fs.files[loc].entries
                /\ (last.fig.plot_fun = NoFun /\ DOMAIN last.fig.data = {"arg"})
                     => DOMAIN fs.files[loc].entries
                          = {<<<<"arg", "pickle">>>>, <<<<"matplotlibrc">>>>}
           ELSE /\ IsFile(fs, loc \o <<<<"matplotlibrc">>>>)
                /\ fs.files[loc \o <<<<"matplotlibrc">>>>].t = "rc"

\* C5: a persist into a destination that is no path and has no name writes
\* the figure into the buffer and creates no backup at all; a persist into a
\* file object that has a name leaves the file system as a persist to that
\* name does.
C5_BufferTargetSkip ==
    /\ (last.op = "savefig" /\ last.dest.kind = "buffer")
         => (buf = Artifact /\ fs = last.pre /\ last.log = {})
    /\ (last.op = "savefig" /\ last.dest.kind = "filelike")
         => LET named == Savefig(FreshFs, last.fig, PathDest(last.dest.path),
                                 last.env, rcParams)
            IN  fs = named.fs /\ last.log = named.log /\ last.log # {}
C5_Witness ==
    /\ last.op = "savefig"
    /\ last.dest.kind = "buffer"
    /\ last.fig.plot_fun # NoFun
    /\ last.fig.data # EmptyMap
    /\ last.fig.zipped
    /\ buf = Artifact

\* The pickles the last persist wrote: data name -> value
PicklesWritten ==
    [n \in { a \in DOMAIN last.fig.data : <<<<a, "pickle">>>> \in DOMAIN Entries }
       |-> Entries[<<<<n, "pickle">>>>]]

\* C6 as stated: an entry is written as <name>.pickle exactly when its name
\* is not an excluded name and its runtime type is not one of the excluded
\* types.
C6_AsStated ==
    SavedToPath
        => \A n \in DOMAIN last.fig.data :
             n \in DOMAIN PicklesWritten
               <=> (n \notin last.fig.excluded_args
                      /\ last.fig.data[n].ty \notin last.fig.excluded_types)

\* C6 (amended): an entry is written as <name>.pickle, holding its value,
\* exactly when its name is not an excluded name and its value is not an
\* instance of an excluded type: a value of a subclass of an excluded type is
\* excluded too.  No other pickle is written.
C6_ExclusionFilters ==
    SavedToPath
        => /\ \A n \in DOMAIN last.fig.data :
                n \in DOMAIN PicklesWritten
                  <=> (n \notin last.fig.excluded_args
                         /\ \A ty \in last.fig.excluded_types :
                              ty \notin Mro(last.fig.data[n].ty))
           /\ \A n \in DOMAIN PicklesWritten :
                PicklesWritten[n] = PickleDump(last.fig.data[n])
           /\ EntriesWithSuffix(Entries, "pickle")
                = { <<<<n, "pickle">>>> : n \in DOMAIN PicklesWritten }
\* excluded by name alone, excluded through a base class, and written
C6_Witness ==
    /\ SavedToPath
    /\ DOMAIN last.fig.data = {"a", "b"}
    /\ last.fig.excluded_args = {"a"}
    /\ last.fig.excluded_types = {"int"}
    /\ last.fig.data["a"] = StrS
    /\ last.fig.data["b"] = BoolT
    /\ DOMAIN PicklesWritten = {}

\* C7: for a figure saved at <parent>/<stem>.<ext>, an archived persist
\* creates <parent>/<stem>.zip and nothing else; an as-directory persist
\* creates everything under <parent>/<stem>/; a flat persist creates its files
\* under <parent>, without the <stem> directory.
C7_LocationByPolicy ==
    SavedToPath
        => LET p == ResolveFname(last.dest)
               parent == Absolute(Parent(p))
               stem == Stem(PathName(p))
           IN  IF last.fig.zipped
               THEN last.log = {parent \o <<stem \o <<"zip">>>>}
               ELSE IF last.fig.as_dir
               THEN /\ \A q \in last.log : IsPrefix(parent \o <<stem>>, q)
                    /\ IsFile(fs, parent \o <<stem, <<"matplotlibrc">>>>)
               ELSE /\ \A q \in last.log : IsPrefix(parent, q) /\ Len(q) > Len(parent)
                    /\ parent \o <<stem>> \notin last.log
                    /\ IsFile(fs, parent \o <<<<"matplotlibrc">>>>)

\* C8: after any sequence of persists, the Backup Location of the last one
\* holds at most two Python source files.
C8_FileCount ==
    (saved # NoSaved /\ ~saved.fig.zipped)
        => Cardinality(RGlob(fs, ExpectedLocation(saved.fig, saved.path), "py")) <= 2

\* The path mirroring a dotted module name: a path segment per name segment,
\* the last one with the .py suffix.
MirrorPath(module_name) ==
    [i \in 1..Len(module_name) |->
       IF i = Len(module_name) THEN <<module_name[i], "py">> ELSE <<module_name[i]>>]

\* C9: a persist writes no Python source without a plot function; with a
\* plot function whose module has a file it writes the module's source at the
\* path mirroring the dotted name and, exactly when function and module differ
\* in name, <function>.py holding `from <module> import <function>`.
C9_SourceCapture ==
    SavedToPath
        => LET pf == last.fig.plot_fun
               py == EntriesWithSuffix(Entries, "py")
               shim == <<<<pf.name, "py">>>>
           IN  IF pf = NoFun THEN py = {}
               ELSE IF pf.hasFile
               THEN /\ MirrorPath(pf.module) \in py
                    /\ Entries[MirrorPath(pf.module)] = ModuleSource(pf.file)
                    /\ IF pf.name # DottedStr(pf.module)
                       THEN /\ py = {MirrorPath(pf.module), shim}
                            /\ Entries[shim].t = "text"
                            /\ Entries[shim].text
                                 = "from " \o DottedStr(pf.module) \o " import " \o pf.name
                       ELSE py = {MirrorPath(pf.module)}
               ELSE TRUE

\* C10: for a plot function defined in a script run as __main__ or in an
\* interactive session, the backup directory holds, besides matplotlibrc and
\* the pickles, exactly <function>.py.
C10_MainOrInteractive ==
    (SavedToPath /\ last.fig.plot_fun.module = <<"__main__">>
        /\ last.fig.as_dir /\ ~last.fig.zipped)
        => DOMAIN Entries \ EntriesWithSuffix(Entries, "pickle")
             = {<<<<"matplotlibrc">>>>, <<<<last.fig.plot_fun.name, "py">>>>}

\* The arguments of a call as Python binds them to the function's
\* parameters: the positional ones (the bound instance first), by position.
Positionals(call) ==
    IF call.sig.self # NoInstance THEN <<call.sig.self>> \o call.args ELSE call.args
ByPosition(call) ==
    { call.sig.args[i] :
        i \in { j \in 1..Len(call.sig.args) : j <= Len(Positionals(call)) } }
\* A call Python accepts
ValidCall(call) ==
    LET sig == call.sig
        required == { sig.args[i] : i \in 1..(Len(sig.args) - Len(sig.defaults)) }
                      \cup (sig.kwonly \ DOMAIN sig.kwonlydefaults)
        named == { sig.args[i] : i \in 1..Len(sig.args) } \cup sig.kwonly
    IN  /\ (Len(Positionals(call)) <= Len(sig.args) \/ sig.varargs)
        /\ \A k \in DOMAIN call.kwargs :
             k \notin ByPosition(call) /\ (k \in named \/ sig.varkw)
        /\ \A n \in required : n \in ByPosition(call) \/ n \in DOMAIN call.kwargs
\* parameter name -> argument, over the named parameters and the keywords
ArgumentBinding(call) ==
    LET sig == call.sig
        na == Len(sig.args)
        nd == Len(sig.defaults)
        defaulted == { sig.args[i] : i \in (na - nd + 1)..na }
        pos == Positionals(call)
    IN  [n \in ByPosition(call) \cup defaulted \cup DOMAIN sig.kwonlydefaults
                 \cup DOMAIN call.kwargs |->
           IF n \in DOMAIN call.kwargs THEN call.kwargs[n]
           ELSE IF n \in ByPosition(call)
           THEN pos[CHOOSE i \in 1..na : sig.args[i] = n]
           ELSE IF n \in defaulted
           THEN sig.defaults[(CHOOSE i \in 1..na : sig.args[i] = n) - (na - nd)]
           ELSE sig.kwonlydefaults[n]]
\* the data mapping `data` holds the binding of the call
HoldsBinding(data, call) ==
    /\ \A n \in DOMAIN ArgumentBinding(call) :
         n \in DOMAIN data /\ data[n] = ArgumentBinding(call)[n]
    /\ Len(Positionals(call)) <= Len(call.sig.args)
         => DOMAIN data = DOMAIN ArgumentBinding(call)

\* C11: for every valid call of a decorated function, made while pyplot's
\* figure is the library's own, the call goes through and the data mapping of
\* the scope it opens, and of the figure created inside it, is the binding of
\* the call's arguments to the parameter names (defaults unless overridden,
\* positional arguments by position with the bound instance first, keyword
\* arguments by name).
C11_DecoratorDataMapping ==
    /\ (last.op = "wrapper_plot" /\ ValidCall(last.call)
          /\ last.pre.kind = "function")
         => /\ last.err = ""
            /\ HoldsBinding(scopes[Len(scopes)].kwargs.data, last.call)
    /\ (last.op = "figure" /\ Len(scopes) > 0)
         => LET top == scopes[Len(scopes)] IN
            (top.call # NoCall /\ ValidCall(top.call))
              => HoldsBinding(fig.data, top.call)

\* C12: while a scope is open pyplot's figure is the replacement that builds
\* a SpyllingFigure with the innermost scope's metadata; leaving a scope, by
\* any path, puts back the factory that was installed when it was entered,
\* and with no scope open the factory is the library's own; entering a scope
\* while another one is open succeeds.
C12_ScopedOverride ==
    /\ Len(scopes) > 0
         => LET top == scopes[Len(scopes)] IN
            /\ pltFigure = Partial(top.func, top.kwargs)
            /\ MakeFigure(pltFigure, NoKwargs)
                 = NewFigure(top.kwargs.plot_fun, top.kwargs.data, top.kwargs.as_dir,
                             top.kwargs.zipped, {}, {}, FALSE)
    /\ last.op = "exit" => pltFigure = last.entered
    /\ Len(scopes) = 0 => pltFigure = PyplotFigure
    /\ (last.op = "SpyllingContext"
          \/ (last.op = "wrapper_plot" /\ last.err # "IndexError"))
         => last.err = ""

\* The paths that name the backup of figure f saved at p: the figure's own
\* path, the archive's when there is one, the directory's when there is one
PathsOfBackup(f, p) ==
    {p} \cup (IF f.zipped THEN {WithSuffix(p, "zip")}
              ELSE IF f.as_dir THEN {WithSuffix(p, "")}
              ELSE {Parent(p)})

\* C13: normalizing the figure's path, the archive's path or the backup
\* directory's path of an existing backup returns an existing directory that
\* holds the backup's contents, the archive's entries when the backup is an
\* archive; NotFound is raised only when neither the directory nor the
\* archive of the derived location exists; what is returned is always a
\* directory.
C13_PathNormalization ==
    last.op = "_extract_if_zip"
        => LET f == saved.fig
               loc == ExpectedLocation(f, saved.path)
           IN  /\ last.err = "" => IsDir(fs, last.val)
               /\ last.path \in PathsOfBackup(f, saved.path)
                    => /\ last.err = ""
                       /\ IsDir(fs, last.val)
                       /\ IF f.zipped
                          THEN IsFile(last.pre.fs, loc)
                                 => \A e \in DOMAIN last.pre.fs.files[loc].entries :
                                      /\ IsFile(fs, last.val \o e)
                                      /\ fs.files[Absolute(last.val \o e)]
                                           = last.pre.fs.files[loc].entries[e]
                          ELSE Absolute(last.val) = loc
               /\ last.err = "NotFound"
                    => /\ ~Exists(last.pre.fs, WithSuffix(last.path, ""))
                       /\ ~Exists(last.pre.fs, WithSuffix(last.path, "zip"))

\* The Reader process as it is right after the persist, before any Reader
\* operation ran
FirstReader == [fs |-> saved.post, sysPath |-> <<Cwd>>, rc |-> InitialRcParams]
SameOutcome(out) == out.err = last.err /\ out.val = last.val

\* C14: for a fixed backup and a fixed path, recover_data, recover_fun and
\* recover_rcParams return the same result, or raise the same error, as they
\* do when they are the first Reader operation to run on the backup.
C14_OrderIndependent ==
    /\ last.op = "recover_data"
         => SameOutcome(RecoverData(FirstReader, last.path))
    /\ last.op = "recover_fun"
         => \E reversed \in BOOLEAN :
              SameOutcome(RecoverFun(FirstReader, last.path, reversed, last.main))
    /\ last.op = "recover_rcParams"
         => SameOutcome(RecoverRcParams(FirstReader, last.path))

\* C15: recover_fun, and recover, on the backup directory of a figure that
\* was persisted without a plot function, which holds no Python source file,
\* end in NoGeneratorCaptured, not in the CorruptBackup error of three files
\* or more.
C15_NoGeneratorCaptured ==
    (/\ last.op \in {"recover_fun", "recover"}
     /\ saved.fig.plot_fun = NoFun
     /\ saved.fig.as_dir /\ ~saved.fig.zipped
     /\ IsDir(last.pre.fs, WithSuffix(last.path, ""))
     /\ RGlob(last.pre.fs, WithSuffix(last.path, ""), "py") = {})
        => (last.err = "NoGeneratorCaptured" /\ last.err # "CorruptBackup")

\* C16: in every persist the figure is written first, before any backup
\* directory, file or archive; when writing the figure fails nothing at all is
\* produced; when a later step fails the figure stays where it was written.
C16_BasePersistFirst ==
    last.op = "savefig"
        => /\ last.trace # <<>>
                => /\ last.trace[1] = "artifact"
                   /\ \A i \in 2..Len(last.trace) : last.trace[i] # "artifact"
                   /\ IF last.dest.kind = "buffer" THEN buf = Artifact
                      ELSE /\ IsFile(fs, last.dest.path)
                           /\ fs.files[Absolute(last.dest.path)] = Artifact
           /\ last.trace = <<>>
                => /\ last.err # ""
                   /\ fs = last.pre
                   /\ last.log = {}
           /\ last.err = "" => last.trace # <<>>
\* a backup step failed after the module's source was written
C16_Witness ==
    /\ last.op = "savefig"
    /\ last.err = "PicklingError"
    /\ last.fig.plot_fun = FunInModule
    /\ Len(last.trace) > 2
    /\ last.dest.kind = "path"
    /\ fs.files[Absolute(last.dest.path)] = Artifact

\* The two Python files of the backup the last recover_fun read, when there
\* are exactly two and their sizes differ: the normalized directory, the
\* smaller file and the larger one.
TwoFiles ==
    LET n == ExtractIfZip(last.pre, last.path)
        py == IF n.err = "" THEN RGlob(n.fs, n.val, "py") ELSE {}
    IN  IF Cardinality(py) = 2
             /\ \A p, q \in py :
                  p # q => FileSize(n.fs.files[Absolute(p)]) # FileSize(n.fs.files[Absolute(q)])
        THEN LET small == CHOOSE p \in py : \A q \in py :
                            FileSize(n.fs.files[Absolute(p)]) <= FileSize(n.fs.files[Absolute(q)])
             IN  [two |-> TRUE, env |-> Env(n), dir |-> n.val, small |-> small,
                  large |-> CHOOSE q \in py : q # small]
        ELSE [two |-> FALSE]

C18_ScratchBufferCleared ==
    last.op = "savefig" => fig.buffers = EmptyMap

\* C19: recover_fun appends the parent of the normalized backup directory to
\* the module search path exactly when it imports from a normalized path that
\* is absolute and not under the working directory; for a relative path, or
\* an absolute one under the working directory, the search path stays as it
\* was.
C19_SearchPathExtension ==
    last.op = "recover_fun"
        => LET n == ExtractIfZip(last.pre, last.path)
               imports == n.err = "" /\ Cardinality(RGlob(n.fs, n.val, "py")) \in {1, 2}
           IN  IF imports /\ IsAbsolute(n.val) /\ ~IsPrefix(Cwd, n.val)
               THEN sysPath = Append(last.pre.sysPath, Parent(n.val))
               ELSE sysPath = last.pre.sysPath

\* A data recovery that finds the backup: it returns without error, and an
\* archived backup is read from its archive, named by a relative path
LatestRead ==
    /\ last.op = "recover_data"
    /\ last.err = ""
    /\ saved.fig.zipped
         => last.path = WithSuffix(saved.path, "zip") /\ ~IsAbsolute(last.path)

\* C20: after persists to one artifact path under one policy, recover_data
\* returns exactly the retained data entries of the most recent persist: an
\* entry an earlier persist wrote, and the latest one did not, is not
\* returned.
C20_LatestPersistWins ==
    LatestRead => last.val = RetainedData(saved.fig)
====
